---- MODULE Spec2Model ----
(***************************************************************************)
(* Smart House Planner: the layout sizing functions of                     *)
(* planner/logic/floor_plan.py and planner/logic/blender_3d.py, the views  *)
(* of planner/views.py (result, chat_with_ai, download_report and          *)
(* download_3d_model) and the assistant of house_planning_agent.py.        *)
(*                                                                         *)
(* Numbers.  A land area is the Python number passed as land_cents.  It is *)
(* kept as a record [k, n, e]:                                             *)
(*   k = "int",   e = 0 : the integer n (cents);                           *)
(*   k = "int",   e > 0 : the integer n * 2^e with n in {-1, 1}, used for  *)
(*                        the magnitudes around the largest double;        *)
(*   k = "float", e = 0 : the float n / UnitsPerCent (cents).              *)
(* One unit is 1/1089 cent = 0.4 sq ft, so that land_cents * 435.6 is the  *)
(* whole number 4 * units of tenths of a square foot and the thresholds    *)
(* 1000 and 2000 sq ft are the whole numbers 2500 and 5000 units.  On the  *)
(* integers -500000..500000 and on 1000/435.6 and 2000/435.6 the double    *)
(* product, its comparisons with 1000 and 2000 and its rounding agree with *)
(* this fixed-point value.                                                 *)
(***************************************************************************)
EXTENDS Integers, Sequences, FiniteSets, Bags, TLC

\* ------------------------------------------------------------------- state
VARIABLES
    BLENDER_AVAILABLE,  \* blender_3d.py: whether bpy could be imported
    scene,              \* the bag of objects of the Blender scene
    materials,          \* the bag of materials of the Blender data (bpy.data.materials)
    slots,              \* the material slots in use: <<object name, material name>> pairs
    ran,                \* history: the steps the latest generate_3d_house call entered
    built,              \* blender_house_generator.py: its arguments and what it has built
    planner,            \* views.py: the AutomatedHousePlanner, or "None"
    samples,            \* the sample GLB files that exist beside the application
    clock,              \* the wall clock, in seconds
    files,              \* the files of the output directory: name -> content
    request,            \* the latest request made to a view
    response,           \* what it was answered with
    served,             \* the number of requests answered
    contexts,           \* history: the contexts the fallback path has rendered, in order
    HousePlanningAgent, \* views.py: the imported agent class, or "None"
    GEMINI_API_KEY,     \* the environment: whether an API key is set
    constructed,        \* the agents the latest chat request constructed
    generated,          \* the generate_content calls of the latest ask_ai call
    advised,            \* whether the latest chat request called _basic_advice
    reply,              \* what the latest chat request was answered with
    first,              \* history: the first call observed (function, land area, result)
    last                \* history: the latest call observed

vars == <<BLENDER_AVAILABLE, scene, materials, slots, ran, built, planner, samples, clock, files,
          request, response, served, contexts, HousePlanningAgent, GEMINI_API_KEY,
          constructed, generated, advised, reply, first, last>>

web == <<materials, ran, built, planner, samples, clock, files, request, response, served,
         contexts>>

ai == <<HousePlanningAgent, GEMINI_API_KEY, constructed, generated, advised, reply>>

\* ------------------------------------------------------------------ bounds
\* Integer land areas run over -MaxNeg .. MaxCents.
MaxCents == 11
MaxNeg == 1
\* The Blender scene holds at most this many objects.
MaxSceneObjects == 12
\* The Blender data holds at most this many materials.
MaxMaterials == 5
\* At most this many requests are answered, and the clock runs up to MaxClock.
MaxRequests == 2
MaxClock == 1

\* --------------------------------------------------------------- constants
\* 435.6 square feet per cent, in tenths of a square foot.
SqftTenthsPerCent == 4356

UnitsPerCent == SqftTenthsPerCent \div 4

IntArea(n) == [k |-> "int", n |-> n, e |-> 0]
FloatArea(q) == [k |-> "float", n |-> q, e |-> 0]
HugeArea(s, x) == [k |-> "int", n |-> s, e |-> x]

\* The float land areas 1000/435.6 and 2000/435.6: those whose square-footage
\* is exactly a threshold.
ThresholdAreas == {FloatArea((1000 * 10) \div 4), FloatArea((2000 * 10) \div 4)}

\* The inputs of the sizing functions.
LandAreas == {IntArea(n) : n \in (0 - MaxNeg)..MaxCents} \cup ThresholdAreas

\* Integers of magnitude 2^1023 (below the largest double) and 2^1024 (above).
HugeAreas == {HugeArea(s, x) : s \in {-1, 1}, x \in {1023, 1024}}

IsInteger(a) == a.k = "int"

Units(a) == IF a.k = "int" THEN a.n * UnitsPerCent ELSE a.n

\* land_cents <= c for a small integer literal c.
LeCents(a, c) == IF a.e > 0 THEN a.n < 0 ELSE Units(a) <= c * UnitsPerCent

\* a < b on land areas (the huge ones are powers of two of each sign).
LtArea(a, b) ==
    IF a.e = 0 /\ b.e = 0 THEN Units(a) < Units(b)
    ELSE IF a.e = 0 THEN b.n > 0
    ELSE IF b.e = 0 THEN a.n < 0
    ELSE \/ a.n < 0 /\ b.n > 0
         \/ a.n > 0 /\ b.n > 0 /\ a.e < b.e
         \/ a.n < 0 /\ b.n < 0 /\ a.e > b.e

\* ------------------------------------------------------------ Python values
Return(v) == [exc |-> "none", val |-> v]
Raise(x) == [exc |-> x, val |-> "none"]

\* land_cents * 435.6.  An int is first converted to a double, which raises
\* OverflowError from 2^1024 on; a double product beyond the largest double is
\* an infinity.  [exc, inf, t]: inf is the sign of an infinite product, t the
\* finite product in tenths of a square foot.
SqftOf(a) ==
    IF a.k = "int" /\ a.e >= 1024
    THEN [exc |-> "OverflowError", inf |-> 0, t |-> 0]
    ELSE IF a.e > 0
    THEN [exc |-> "none", inf |-> a.n, t |-> 0]
    ELSE [exc |-> "none", inf |-> 0, t |-> 4 * Units(a)]

\* The comparison written strictly.
SqftLe_strict(s, k) == IF s.inf # 0 THEN s.inf < 0 ELSE s.t < 10 * k

\* sqft <= k for a whole number k of square feet.
SqftLe(s, k) == IF s.inf # 0 THEN s.inf < 0 ELSE s.t <= 10 * k

\* Round-half-even of t tenths to a whole number: round(x) and format(x, ".0f").
RoundTenths(t) ==
    LET q == t \div 10
        r == t % 10
    IN  IF r < 5 THEN q
        ELSE IF r > 5 THEN q + 1
        ELSE IF q % 2 = 0 THEN q ELSE q + 1

\* f"{sqft:.0f} sq ft"
TotalArea(s) == [inf |-> s.inf, sqft |-> IF s.inf # 0 THEN 0 ELSE RoundTenths(s.t)]

\* ------------------------------------------------------------ floor_plan.py
HouseTypes == {"Single Floor House", "Duplex", "Villa"}

get_house_type(a) ==
    IF LeCents(a, 5) THEN Return("Single Floor House")
    ELSE IF LeCents(a, 10) THEN Return("Duplex")
    ELSE Return("Villa")

SmallConfig(s) ==
    [Bedrooms |-> 2, Bathrooms |-> 1, Kitchen |-> 1, Hall |-> 1,
     Parking |-> "1 compact", Balcony |-> "Small balcony",
     TotalArea |-> TotalArea(s)]

MediumConfig(s) ==
    [Bedrooms |-> 3, Bathrooms |-> 2, Kitchen |-> 1, Hall |-> 1,
     Parking |-> "1 car", Balcony |-> "Medium balcony",
     TotalArea |-> TotalArea(s)]

LargeConfig(s) ==
    [Bedrooms |-> 4, Bathrooms |-> 3, Kitchen |-> 2, Hall |-> 2,
     Parking |-> "2-car garage", Balcony |-> "Large balcony + terrace",
     TotalArea |-> TotalArea(s)]

\* calculate_room_config refusing a land area that is not positive.
calculate_room_config_validating(a) ==
    LET s == SqftOf(a)
    IN  IF s.exc # "none" THEN Raise(s.exc)
        ELSE IF LeCents(a, 0) THEN Raise("ValueError")
        ELSE IF SqftLe(s, 1000) THEN Return(SmallConfig(s))
        ELSE IF SqftLe(s, 2000) THEN Return(MediumConfig(s))
        ELSE Return(LargeConfig(s))

\* calculate_room_config with its first threshold written as 800.
calculate_room_config_low(a) ==
    LET s == SqftOf(a)
    IN  IF s.exc # "none" THEN Raise(s.exc)
        ELSE IF SqftLe(s, 800) THEN Return(SmallConfig(s))
        ELSE IF SqftLe(s, 2000) THEN Return(MediumConfig(s))
        ELSE Return(LargeConfig(s))

\* calculate_room_config with its second threshold written as 2200.
calculate_room_config_high(a) ==
    LET s == SqftOf(a)
    IN  IF s.exc # "none" THEN Raise(s.exc)
        ELSE IF SqftLe(s, 1000) THEN Return(SmallConfig(s))
        ELSE IF SqftLe(s, 2200) THEN Return(MediumConfig(s))
        ELSE Return(LargeConfig(s))

\* calculate_room_config with the records of its first two branches exchanged.
calculate_room_config_swapped(a) ==
    LET s == SqftOf(a)
    IN  IF s.exc # "none" THEN Raise(s.exc)
        ELSE IF SqftLe(s, 1000) THEN Return(MediumConfig(s))
        ELSE IF SqftLe(s, 2000) THEN Return(SmallConfig(s))
        ELSE Return(LargeConfig(s))

calculate_room_config(a) ==
    LET s == SqftOf(a)
    IN  IF s.exc # "none" THEN Raise(s.exc)
        ELSE IF SqftLe(s, 1000) THEN Return(SmallConfig(s))
        ELSE IF SqftLe(s, 2000) THEN Return(MediumConfig(s))
        ELSE Return(LargeConfig(s))

\* ------------------------------------------------------------ blender_3d.py
\* The scene is the bag of the names given to the objects created in it.
Objects(name, n) == IF n = 0 THEN EmptyBag ELSE [x \in {name} |-> n]

create_interior_walls(bedrooms) ==
    IF bedrooms = 2 THEN Objects("InteriorWall", 1)
    ELSE IF bedrooms = 3
    THEN Objects("InteriorWall1", 1) (+) Objects("InteriorWall2", 1)
    ELSE EmptyBag

create_single_floor_walls(bedrooms) ==
    Objects("Wall", 4) (+) create_interior_walls(bedrooms)

create_duplex_walls(bedrooms) ==
    create_single_floor_walls(bedrooms) (+) Objects("SecondFloor", 1)
        (+) Objects("Wall_2nd", 4)

create_villa_walls(bedrooms) ==
    create_single_floor_walls(bedrooms) (+) Objects("Column", 4)

\* The (width, length) of create_floor_plan: the same thresholds are written in
\* the branch taken without Blender and in the one taken with it.
\* The simulated dimensions with the medium pair written in the last branch too.
SimulatedDimensions_copied(s) ==
    IF SqftLe(s, 1000) THEN <<30, 35>>
    ELSE IF SqftLe(s, 2000) THEN <<40, 50>>
    ELSE <<40, 50>>

SimulatedDimensions(s) ==
    IF SqftLe(s, 1000) THEN <<30, 35>>
    ELSE IF SqftLe(s, 2000) THEN <<40, 50>>
    ELSE <<50, 70>>

\* The Blender branch with thresholds of its own.
BlenderDimensions_drifted(s) ==
    IF SqftLe(s, 1200) THEN <<30, 35>>
    ELSE IF SqftLe(s, 2400) THEN <<40, 50>>
    ELSE <<50, 70>>

BlenderDimensions(s) ==
    IF SqftLe(s, 1000) THEN <<30, 35>>
    ELSE IF SqftLe(s, 2000) THEN <<40, 50>>
    ELSE <<50, 70>>

\* create_floor_plan sizing the plan no smaller than what the scene already
\* holds.
create_floor_plan_stateful(available, a) ==
    LET s == SqftOf(a)
    IN  IF s.exc # "none" THEN Raise(s.exc)
        ELSE IF ~available THEN Return(SimulatedDimensions(s))
        ELSE IF BagCardinality(scene) > 0 THEN Return(<<50, 70>>)
        ELSE Return(BlenderDimensions(s))

\* What create_floor_plan returns (or raises), given BLENDER_AVAILABLE.
create_floor_plan(available, a) ==
    LET s == SqftOf(a)
    IN  IF s.exc # "none" THEN Raise(s.exc)
        ELSE IF ~available THEN Return(SimulatedDimensions(s))
        ELSE Return(BlenderDimensions(s))

\* The objects create_floor_plan adds to the scene.
FloorPlanObjects(available, a, house_type, bedrooms) ==
    IF ~available \/ SqftOf(a).exc # "none" THEN EmptyBag
    ELSE Objects("Ground", 1) (+)
         (IF house_type = "Single Floor House" THEN create_single_floor_walls(bedrooms)
          ELSE IF house_type = "Duplex" THEN create_duplex_walls(bedrooms)
          ELSE create_villa_walls(bedrooms))

\* The steps of generate_3d_house, each as the objects it adds to the scene.
create_detailed_interior_walls(house_type) ==
    IF house_type = "1BHK" THEN Objects("BedroomWall", 1)
    ELSE IF house_type = "2BHK"
    THEN Objects("Bedroom1Wall", 1) (+) Objects("Bedroom2Wall", 1)
    ELSE IF house_type = "3BHK"
    THEN Objects("Bedroom1Wall", 1) (+) Objects("Bedroom2Wall", 1)
            (+) Objects("Bedroom3Wall", 1)
    ELSE EmptyBag

create_detailed_floor_plan(house_type) ==
    Objects("Ground", 1) (+) Objects("ExteriorWall", 4)
        (+) create_detailed_interior_walls(house_type)

create_windows_and_doors(orientation) ==
    Objects("MainDoor", 1) (+) Objects("Window_1", 1) (+) Objects("Window_2", 1)
        (+) (IF orientation \in {"North", "South"} THEN EmptyBag
             ELSE Objects("Window_3", 1) (+) Objects("Window_4", 1))

add_materials ==
    Objects("Wall", 1) (+) Objects("Roof", 1) (+) Objects("Ground", 1)
        (+) Objects("Door", 1) (+) Objects("Window", 1)

setup_scene_lighting == Objects("Sun", 1) (+) Objects("Camera", 1)

\* The steps of the try block of generate_3d_house, in its order.
Steps ==
    <<"clear_scene", "create_detailed_floor_plan", "create_roof",
      "create_windows_and_doors", "add_materials", "setup_scene_lighting">>

\* The objects a step creates when it completes.
StepObjects(step, house_type, orientation) ==
    IF step = "create_detailed_floor_plan" THEN create_detailed_floor_plan(house_type)
    ELSE IF step = "create_roof" THEN Objects("Roof", 1)
    ELSE IF step = "create_windows_and_doors" THEN create_windows_and_doors(orientation)
    ELSE IF step = "setup_scene_lighting" THEN setup_scene_lighting
    ELSE EmptyBag

RECURSIVE BuiltObjects(_, _, _)
BuiltObjects(done, house_type, orientation) ==
    IF done = 0 THEN EmptyBag
    ELSE BuiltObjects(done - 1, house_type, orientation)
            (+) StepObjects(Steps[done], house_type, orientation)

RECURSIVE BuiltMaterials(_)
BuiltMaterials(done) ==
    IF done = 0 THEN EmptyBag
    ELSE BuiltMaterials(done - 1)
            (+) (IF Steps[done] = "add_materials" THEN add_materials ELSE EmptyBag)

\* The step that raises, 0 when none does: `raising` is the step in which a
\* call of bpy raises (0: none), and land_cents * 435.6 raises at the head of
\* create_detailed_floor_plan for an integer beyond the floats.
Failing(a, raising) ==
    IF raising = 1 THEN 1
    ELSE IF SqftOf(a).exc # "none" THEN 2
    ELSE raising

\* str(e): the text of OverflowError, and for an exception of bpy a text
\* that names the step it came from.
ErrorText(a, step) ==
    IF step = "create_detailed_floor_plan" /\ SqftOf(a).exc # "none"
    THEN "int too large to convert to float"
    ELSE "bpy failed in " \o step

SimulatedMessage == "3D model generation simulated (Blender not available)"

SuccessMessage(house_type) ==
    "3D house generated successfully: " \o house_type \o " with 1 bathrooms"

ErrorMessage(text) == "Error generating 3D house: " \o text

\* generate_3d_house with no try block around its steps.
generate_3d_house_unguarded(a, house_type, orientation, raising) ==
    IF ~BLENDER_AVAILABLE
    THEN [exc |-> "none", success |-> TRUE, message |-> SimulatedMessage,
          scene |-> scene, materials |-> materials, slots |-> slots, ran |-> <<>>]
    ELSE LET failing == Failing(a, raising)
             done == IF failing = 0 THEN Len(Steps) ELSE failing - 1
         IN  [exc |-> IF failing = 0 THEN "none" ELSE "Exception",
              success |-> failing = 0,
              message |-> IF failing = 0 THEN SuccessMessage(house_type) ELSE "",
              scene |-> IF done = 0 THEN scene
                        ELSE BuiltObjects(done, house_type, orientation),
              materials |-> materials (+) BuiltMaterials(done),
              slots |-> IF done = 0 THEN slots ELSE {},
              ran |-> SubSeq(Steps, 1, IF failing = 0 THEN Len(Steps) ELSE failing)]

\* generate_3d_house(land_cents, house_type, orientation, room_config) as the
\* result view calls it, with no keyword argument: what it returns (success,
\* message; exc is the exception that leaves it, "none" when it returns) and
\* the scene, the materials and the material slots it leaves behind.  A step
\* that raises is taken to raise before it creates anything.  No step puts a
\* material in a slot of an object, and clear_scene deletes the objects with
\* their slots.
generate_3d_house(a, house_type, orientation, raising) ==
    IF ~BLENDER_AVAILABLE
    THEN [exc |-> "none", success |-> TRUE, message |-> SimulatedMessage,
          scene |-> scene, materials |-> materials, slots |-> slots, ran |-> <<>>]
    ELSE LET failing == Failing(a, raising)
             done == IF failing = 0 THEN Len(Steps) ELSE failing - 1
         IN  [exc |-> "none",
              success |-> failing = 0,
              message |-> IF failing = 0 THEN SuccessMessage(house_type)
                          ELSE ErrorMessage(ErrorText(a, Steps[failing])),
              scene |-> IF done = 0 THEN scene
                        ELSE BuiltObjects(done, house_type, orientation),
              materials |-> materials (+) BuiltMaterials(done),
              slots |-> IF done = 0 THEN slots ELSE {},
              ran |-> SubSeq(Steps, 1, IF failing = 0 THEN Len(Steps) ELSE failing)]

\* ------------------------------------------------- blender_house_generator.py
\* RoomRect: the origin, the width and the height of a room, with its label.
RoomRect(name, x, y, width, height) ==
    [name |-> name, x |-> x, y |-> y, width |-> width, height |-> height]

\* The rooms of create_realistic_3bhk_house.
Rooms3BHK ==
    <<RoomRect("Master Bedroom", 0, 0, 4, 4),
      RoomRect("Bedroom 2", 4, 0, 4, 4),
      RoomRect("Bedroom 3", 8, 0, 4, 4),
      RoomRect("Kitchen", 0, 4, 6, 4),
      RoomRect("Living Room", 6, 4, 8, 6),
      RoomRect("Dining Area", 6, 10, 6, 4),
      RoomRect("Bathroom 1", 12, 10, 2, 3),
      RoomRect("Bathroom 2", 14, 10, 2, 3),
      RoomRect("Entrance Hall", 0, 8, 6, 2),
      RoomRect("Balcony", 0, 14, 6, 2)>>

\* The rooms of create_realistic_duplex_house, floor by floor.
GroundFloorRooms ==
    <<RoomRect("Living Room", 0, 0, 8, 6),
      RoomRect("Kitchen", 8, 0, 7, 4),
      RoomRect("Dining Area", 8, 4, 7, 4),
      RoomRect("Bathroom 1", 0, 6, 3, 3),
      RoomRect("Entrance Hall", 3, 6, 5, 3),
      RoomRect("Staircase", 0, 9, 4, 4)>>

FirstFloorRooms ==
    <<RoomRect("Master Bedroom", 0, 0, 6, 5),
      RoomRect("Bedroom 2", 6, 0, 6, 5),
      RoomRect("Bedroom 3", 12, 0, 3, 5),
      RoomRect("Bathroom 2", 0, 5, 3, 3),
      RoomRect("Family Hall", 3, 5, 12, 4),
      RoomRect("Balcony", 0, 9, 15, 2)>>

\* room['y'] += 13 for the rooms of the first floor.
FirstFloorOffset == 13

\* The house types the script builds.
Implemented == {"3BHK", "Duplex"}

\* The number of rooms of a house type.
RoomCount(house_type) ==
    IF house_type = "3BHK" THEN Len(Rooms3BHK)
    ELSE IF house_type = "Duplex" THEN Len(GroundFloorRooms) + Len(FirstFloorRooms)
    ELSE 0

\* The rooms of the first floor laid where the table has them.
PlacedRoom_unshifted(house_type, i) ==
    IF house_type = "3BHK" THEN Rooms3BHK[i]
    ELSE IF i <= Len(GroundFloorRooms) THEN GroundFloorRooms[i]
    ELSE FirstFloorRooms[i - Len(GroundFloorRooms)]

\* The i-th rectangle handed to create_realistic_room.
PlacedRoom(house_type, i) ==
    IF house_type = "3BHK" THEN Rooms3BHK[i]
    ELSE IF i <= Len(GroundFloorRooms) THEN GroundFloorRooms[i]
    ELSE LET room == FirstFloorRooms[i - Len(GroundFloorRooms)]
         IN  [room EXCEPT !.y = @ + FirstFloorOffset]

\* len(furniture_objects): the parts each item of --furniture is made of.
FurnitureParts(furniture_list) ==
    (IF "beds" \in furniture_list THEN 3 * 3 ELSE 0)
        + (IF "sofa" \in furniture_list THEN 2 + 2 ELSE 0)
        + (IF "dining_table" \in furniture_list THEN 1 + 4 + 4 ELSE 0)
        + (IF "kitchen_counter" \in furniture_list THEN 4 ELSE 0)

\* The count the two functions return: four walls and a floor for each room,
\* a frame and a leaf for each door, a frame and a glass for each window, the
\* roof and the furniture.
TotalObjects(house_type, furniture_list) ==
    4 * RoomCount(house_type) + RoomCount(house_type)
        + (IF house_type = "3BHK" THEN 2 * 8 ELSE 2 * 9)
        + (IF house_type = "3BHK" THEN 2 * 6 ELSE 2 * 7)
        + 1 + FurnitureParts(furniture_list)

\* Nothing built: the script has not been started.
NoHouse == [house_type |-> "none", furniture |-> {}, rooms |-> <<>>, total |-> 0 - 1]

\* ----------------------------------------------------------------- strings
UpperLetters == "ABCDEFGHIJKLMNOPQRSTUVWXYZ"
LowerLetters == "abcdefghijklmnopqrstuvwxyz"

\* The letters paired: each capital with its small letter, and back.
ToLower ==
    [c \in {SubSeq(UpperLetters, i, i) : i \in 1..Len(UpperLetters)} |->
        LET i == CHOOSE j \in 1..Len(UpperLetters) : SubSeq(UpperLetters, j, j) = c
        IN  SubSeq(LowerLetters, i, i)]
ToUpper ==
    [c \in {SubSeq(LowerLetters, i, i) : i \in 1..Len(LowerLetters)} |->
        LET i == CHOOSE j \in 1..Len(LowerLetters) : SubSeq(LowerLetters, j, j) = c
        IN  SubSeq(UpperLetters, i, i)]

LowerChar(c) == IF c \in DOMAIN ToLower THEN ToLower[c] ELSE c

\* str.lower()
RECURSIVE Lower(_)
Lower(s) ==
    IF s = "" THEN ""
    ELSE LowerChar(SubSeq(s, 1, 1)) \o Lower(SubSeq(s, 2, Len(s)))

\* k in q, for strings
Contains(q, k) ==
    \E i \in 1..(Len(q) - Len(k) + 1) : SubSeq(q, i, i + Len(k) - 1) = k

\* str.strip() of a string
RECURSIVE StripText(_)
StripText(s) ==
    IF s = "" THEN s
    ELSE IF SubSeq(s, 1, 1) = " " THEN StripText(SubSeq(s, 2, Len(s)))
    ELSE IF SubSeq(s, Len(s), Len(s)) = " " THEN StripText(SubSeq(s, 1, Len(s) - 1))
    ELSE s

UpperChar(c) == IF c \in DOMAIN ToUpper THEN ToUpper[c] ELSE c

\* str.upper()
RECURSIVE Upper(_)
Upper(s) ==
    IF s = "" THEN ""
    ELSE UpperChar(SubSeq(s, 1, 1)) \o Upper(SubSeq(s, 2, Len(s)))

\* str.startswith(prefix)
StartsWith(s, prefix) ==
    Len(prefix) <= Len(s) /\ SubSeq(s, 1, Len(prefix)) = prefix

\* ----------------------------------------------------------------- views.py
\* A text of the form is a sequence of characters.
Digits == {"0", "1", "2", "3", "4", "5", "6", "7", "8", "9"}

DigitValue(c) ==
    CASE c = "0" -> 0 [] c = "1" -> 1 [] c = "2" -> 2 [] c = "3" -> 3 [] c = "4" -> 4
      [] c = "5" -> 5 [] c = "6" -> 6 [] c = "7" -> 7 [] c = "8" -> 8 [] c = "9" -> 9

RECURSIVE DigitsValue(_)
DigitsValue(t) ==
    IF t = <<>> THEN 0
    ELSE 10 * DigitsValue(SubSeq(t, 1, Len(t) - 1)) + DigitValue(t[Len(t)])

\* str.strip()
RECURSIVE Strip(_)
Strip(t) ==
    IF t = <<>> THEN t
    ELSE IF t[1] = " " THEN Strip(Tail(t))
    ELSE IF t[Len(t)] = " " THEN Strip(SubSeq(t, 1, Len(t) - 1))
    ELSE t

\* str.replace(c, '')
Without(t, c) == SelectSeq(t, LAMBDA x : x # c)

\* int(text): surrounding blanks are dropped, one sign may lead, and what is
\* left must be decimal digits, single underscores between them allowed.
int(t) ==
    LET u == Strip(t)
        signed == u # <<>> /\ u[1] \in {"-", "+"}
        body == IF signed THEN Tail(u) ELSE u
        wellFormed ==
            /\ body # <<>>
            /\ body[1] \in Digits /\ body[Len(body)] \in Digits
            /\ \A i \in 1..Len(body) : body[i] \in Digits \cup {"_"}
            /\ \A i \in 1..(Len(body) - 1) : ~(body[i] = "_" /\ body[i + 1] = "_")
        magnitude == DigitsValue(Without(body, "_"))
    IN  IF ~wellFormed THEN Raise("ValueError")
        ELSE Return(IF signed /\ u[1] = "-" THEN 0 - magnitude ELSE magnitude)

\* A field of request.POST: absent, or a text.
Absent == [present |-> FALSE, text |-> <<>>]
Field(t) == [present |-> TRUE, text |-> t]

\* int(request.POST.get('land_cents', 1))
ParseLandCents(field) == IF field.present THEN int(field.text) ELSE Return(1)

\* The budget: int(str(raw_budget).replace(',', '').strip() or '0') with raw_budget
\* = request.POST.get('budget', '0'), and 0 on any exception.
ParseBudget(field) ==
    LET raw == IF field.present THEN field.text ELSE <<"0">>
        cleaned == Strip(Without(raw, ","))
        parsed == int(IF cleaned = <<>> THEN <<"0">> ELSE cleaned)
    IN  IF parsed.exc = "none" THEN parsed.val ELSE 0

\* int(land_cents * 435.6): the fraction dropped, not rounded.
IntRound_truncating(s) ==
    IF s.exc # "none" THEN Raise(s.exc)
    ELSE IF s.inf # 0 THEN Raise("OverflowError")
    ELSE Return(IF s.t >= 0 THEN s.t \div 10 ELSE 0 - ((0 - s.t) \div 10))

\* int(round(land_cents * 435.6))
IntRound(s) ==
    IF s.exc # "none" THEN Raise(s.exc)
    ELSE IF s.inf # 0 THEN Raise("OverflowError")
    ELSE Return(RoundTenths(s.t))

\* The sample GLB the fallback path copies for a land size.
SampleGlb(n) ==
    IF n <= 3 THEN "1bhk.glb"
    ELSE IF 4 <= n /\ n <= 6 THEN "2bhk.glb"
    ELSE IF 7 <= n /\ n <= 10 THEN "3bhk.glb"
    ELSE "villa.glb"

SampleNames == {"1bhk.glb", "2bhk.glb", "3bhk.glb", "villa.glb"}

\* str(house_type).upper().startswith(prefix)
UpperStartsWith(house_type, prefix) == StartsWith(Upper(house_type), prefix)

\* The template of the three fallback reports.
ReportTemplate(house_type) ==
    IF UpperStartsWith(house_type, "1BHK") THEN "1BHK"
    ELSE IF UpperStartsWith(house_type, "2BHK") THEN "2BHK"
    ELSE IF UpperStartsWith(house_type, "3BHK") THEN "3BHK"
    ELSE "Villa"

\* os.path.join(output_dir, f"{kind}_{id}.{ext}")
FileName(kind, id, ext) == [kind |-> kind, id |-> id, ext |-> ext]

Write(fs, name, content) == (name :> content) @@ fs

Exists(fs, name) == name \in DOMAIN fs

ReportKinds == <<"summary_report", "technical_specifications", "cost_breakdown">>

NoPath == FileName("None", 0 - 1, "")

NoContent == [none |-> TRUE]

NoField == [present |-> FALSE, text |-> ""]

NoRequest ==
    [view |-> "none", method |-> "none", land_cents |-> Absent,
     report_type |-> "none", project_id |-> 0 - 1]

NoResponse ==
    [status |-> "none", exc |-> "none", path |-> "none", land_cents |-> 0,
     orientation |-> "none", budget |-> 0, house_type |-> "none", bedrooms |-> 0,
     sqft |-> 0, project_id |-> 0 - 1, model_success |-> FALSE,
     model_path |-> NoPath, reports |-> <<>>, content |-> NoContent]

\* ------------------------------------------------- house_planning_agent.py
\* A Python value that a question or a JSON member can be: its type and its
\* text (the decimal text for an int).
PyStr(s) == [type |-> "str", val |-> s]
PyInt(s) == [type |-> "int", val |-> s]
PyNone == [type |-> "NoneType", val |-> ""]

\* bool(value)
Truthy(v) ==
    IF v.type = "str" THEN v.val # ""
    ELSE IF v.type = "int" THEN v.val # "0"
    ELSE FALSE

\* The five answers of _fallback_answer (the rupee sign written Rs, the dash -
\* and the multiplication sign *).
CostAnswer ==
    "Typical build cost ranges Rs1,200-2,000/sq ft based on materials and finish."
OrientationAnswer ==
    "Prefer East/North facing for light; shade West walls and buffer harsh South sun."
RoomSizeAnswer ==
    "Good sizes: Master 12*14 ft, Bedroom 10*12 ft, Living 16*20 ft, Kitchen 10*12 ft."
BudgetAnswer ==
    "Allocate ~60% build, 20% materials, 15% labour, 5% approvals; keep 10% buffer."
GenericAnswer ==
    "I can help with costs, sizes, orientation and materials. Ask a specific question."

FallbackAnswers ==
    {CostAnswer, OrientationAnswer, RoomSizeAnswer, BudgetAnswer, GenericAnswer}

\* _fallback_answer with the room-size test moved ahead of the cost test.
fallback_answer_reordered(question) ==
    LET q == Lower(question)
    IN  IF Contains(q, "size") \/ Contains(q, "room") THEN RoomSizeAnswer
        ELSE IF \E k \in {"cost", "price", "estimat"} : Contains(q, k) THEN CostAnswer
        ELSE IF Contains(q, "orientation") \/ Contains(q, "facing") THEN OrientationAnswer
        ELSE IF Contains(q, "budget") THEN BudgetAnswer
        ELSE GenericAnswer

\* HousePlanningAgent._fallback_answer(question), question a string.
_fallback_answer(question) ==
    LET q == Lower(question)
    IN  IF \E k \in {"cost", "price", "estimat"} : Contains(q, k) THEN CostAnswer
        ELSE IF Contains(q, "orientation") \/ Contains(q, "facing") THEN OrientationAnswer
        ELSE IF Contains(q, "size") \/ Contains(q, "room") THEN RoomSizeAnswer
        ELSE IF Contains(q, "budget") THEN BudgetAnswer
        ELSE GenericAnswer

\* The model names _init_model tries, in its order.
ModelNames ==
    <<"gemini-2.0-flash", "gemini-2.0-flash-exp", "gemini-1.5-flash-latest",
      "gemini-1.5-pro-latest", "gemini-1.5-flash", "gemini-1.5-pro">>

\* _init_model(), given the names genai.GenerativeModel accepts.
_init_model(accepted) ==
    IF \E i \in DOMAIN ModelNames : ModelNames[i] \in accepted
    THEN ModelNames[CHOOSE i \in DOMAIN ModelNames :
                        /\ ModelNames[i] \in accepted
                        /\ \A j \in 1..(i - 1) : ModelNames[j] \notin accepted]
    ELSE "None"

\* HousePlanningAgent(): the model of the new agent, given whether
\* genai.configure raises and the names genai.GenerativeModel accepts.
AgentModel(key, configures, accepted) ==
    IF key /\ configures THEN _init_model(accepted) ELSE "None"

\* One generate_content call: a reply with a text, a reply whose text is None,
\* or an exception with its message.
Reply(text) == [kind |-> "text", text |-> text]
NoText == [kind |-> "none", text |-> ""]
Fails(error) == [kind |-> "raises", text |-> error]

\* for _ in range(2)
Attempts == 2

ClearQuestion == "Please ask a clear question about your house plan."

\* The loop of ask_ai from attempt i on: the answer and the calls made.
RECURSIVE Attempt(_, _, _, _)
Attempt(question, outcomes, i, last_error) ==
    IF i > Attempts
    THEN [answer |-> "AI unavailable: " \o last_error \o ". " \o _fallback_answer(question),
          calls |-> Attempts]
    ELSE IF outcomes[i].kind = "raises"
    THEN Attempt(question, outcomes, i + 1, outcomes[i].text)
    ELSE LET text == StripText(outcomes[i].text)
         IN  [answer |-> IF text # "" THEN text ELSE _fallback_answer(question),
              calls |-> i]

\* ask_ai retrying for as long as the model fails.
ask_ai_persistent(question, model, outcomes) ==
    IF ~Truthy(question) \/ question.type # "str"
    THEN [answer |-> ClearQuestion, calls |-> 0]
    ELSE IF model = "None"
    THEN [answer |-> _fallback_answer(question.val), calls |-> 0]
    ELSE LET r == Attempt(question.val, outcomes, 1, "None")
         IN  IF outcomes[1].kind = "raises" /\ outcomes[Attempts].kind = "raises"
             THEN [r EXCEPT !.calls = Attempts + 1]
             ELSE r

\* HousePlanningAgent.ask_ai(question), for an agent with the given model and
\* the given outcomes of its generate_content calls.
ask_ai(question, model, outcomes) ==
    IF ~Truthy(question) \/ question.type # "str"
    THEN [answer |-> ClearQuestion, calls |-> 0]
    ELSE IF model = "None"
    THEN [answer |-> _fallback_answer(question.val), calls |-> 0]
    ELSE Attempt(question.val, outcomes, 1, "None")

\* ------------------------------------------------- views.py: chat_with_ai
\* The five answers of _basic_advice (the rupee sign written Rs, the dash -).
BasicCost ==
    "Rough build cost: Rs1,200-2,000 per sq ft depending on materials and location."
BasicOrientation ==
    "North/East facing maximize daylight; add shading for West, buffer spaces for South."
BasicRoomSize ==
    "Good sizes: Master 12x14 ft, Bedroom 10x12 ft, Living 16x20 ft, Kitchen 10x12 ft."
BasicBudget ==
    "Allocate ~60% construction, 20% materials, 15% labor, 5% permits; keep 10% buffer."
BasicGeneric ==
    "I can help with costs, sizes, orientation, and materials. Ask a specific question."

BasicAnswers == {BasicCost, BasicOrientation, BasicRoomSize, BasicBudget, BasicGeneric}

\* _basic_advice with nothing to say when no keyword matches.
basic_advice_silent(query) ==
    IF Truthy(query) /\ query.type # "str" THEN Raise("AttributeError")
    ELSE LET q == Lower(IF Truthy(query) THEN query.val ELSE "")
         IN  Return(
                IF \E k \in {"cost", "estimation", "price"} : Contains(q, k) THEN BasicCost
                ELSE IF Contains(q, "orientation") \/ Contains(q, "facing")
                THEN BasicOrientation
                ELSE IF Contains(q, "room") \/ Contains(q, "size") THEN BasicRoomSize
                ELSE IF Contains(q, "budget") THEN BasicBudget
                ELSE "")

\* _basic_advice(query): (query or '').lower() has no meaning for a number.
_basic_advice(query) ==
    IF Truthy(query) /\ query.type # "str" THEN Raise("AttributeError")
    ELSE LET q == Lower(IF Truthy(query) THEN query.val ELSE "")
         IN  Return(
                IF \E k \in {"cost", "estimation", "price"} : Contains(q, k) THEN BasicCost
                ELSE IF Contains(q, "orientation") \/ Contains(q, "facing")
                THEN BasicOrientation
                ELSE IF Contains(q, "room") \/ Contains(q, "size") THEN BasicRoomSize
                ELSE IF Contains(q, "budget") THEN BasicBudget
                ELSE BasicGeneric)

\* A member of the JSON object of the request body: absent, or a value.
NoMember == [present |-> FALSE, value |-> PyNone]
Member(v) == [present |-> TRUE, value |-> v]

\* request.body: no JSON at all, a JSON array, or a JSON object with or without
\* the member 'message'.
NotJson == [json |-> "invalid", message |-> NoMember]
JsonArray == [json |-> "array", message |-> NoMember]
JsonObject(member) == [json |-> "object", message |-> member]

NoReply == [status |-> 0, error |-> "", response |-> ""]
JsonResponse(status, error, text) ==
    [status |-> status, error |-> error, response |-> text]

\* What chat_with_ai answers and what it does on the way: the reply, the
\* agents constructed, the generate_content calls and whether _basic_advice
\* was called.
ChatOutcome(r, agents, calls, advice) ==
    [reply |-> r, constructed |-> agents, generated |-> calls, advised |-> advice]

\* chat_with_ai answering a message it should have refused.
chat_with_ai_unchecked(class, key, body, raises, configures, accepted, outcomes) ==
    ChatOutcome(JsonResponse(200, "", BasicGeneric), 0, 0, TRUE)

\* chat_with_ai(request) for a POST request.
chat_with_ai(class, key, body, raises, configures, accepted, outcomes) ==
    IF body.json = "invalid"
    THEN ChatOutcome(JsonResponse(500, "JSONDecodeError", ""), 0, 0, FALSE)
    ELSE IF body.json # "object"
    THEN ChatOutcome(JsonResponse(500, "AttributeError", ""), 0, 0, FALSE)
    ELSE
    LET message == IF body.message.present THEN body.message.value ELSE PyStr("")
        model == AgentModel(key, configures, accepted)
        constructs == class # "None"
        asks == constructs /\ ~raises /\ model # "None"
        asked == ask_ai(message, model, outcomes)
        error_text ==
            IF ~constructs THEN ""
            ELSE IF raises THEN "constructor failed"
            ELSE IF model = "None" THEN "AI model not initialized"
            ELSE ""
        advice == _basic_advice(message)
        agents == IF constructs THEN 1 ELSE 0
    IN  IF ~Truthy(message)
        THEN ChatOutcome(JsonResponse(400, "No message provided", ""), 0, 0, FALSE)
        ELSE IF asks
        THEN ChatOutcome(JsonResponse(200, "", asked.answer), agents, asked.calls, FALSE)
        ELSE IF advice.exc # "none"
        THEN ChatOutcome(JsonResponse(500, advice.exc, ""), agents, 0, TRUE)
        ELSE IF error_text = ""
        THEN ChatOutcome(JsonResponse(200, "", advice.val), agents, 0, TRUE)
        ELSE ChatOutcome(
                JsonResponse(200, "",
                    "AI unavailable: " \o error_text \o ". Using basic advice: "
                        \o advice.val),
                agents, 0, TRUE)

\* ----------------------------------------------------------------- actions
NoCall == [fn |-> "none", arg |-> IntArea(0), res |-> Raise("none")]

Start ==
    /\ BLENDER_AVAILABLE \in BOOLEAN
    /\ scene = EmptyBag
    /\ materials = EmptyBag
    /\ slots = {}
    /\ ran = <<>>
    /\ built = NoHouse
    /\ clock = 0
    /\ files = <<>>
    /\ request = NoRequest
    /\ response = NoResponse
    /\ served = 0
    /\ contexts = <<>>
    /\ constructed = 0
    /\ generated = 0
    /\ advised = FALSE
    /\ reply = NoReply
    /\ first = NoCall
    /\ last = NoCall

\* The sizing functions called on their own: the planner module is not there and
\* no sample file is.
Init ==
    /\ Start
    /\ planner = "None"
    /\ samples = {}
    /\ HousePlanningAgent = "None"
    /\ GEMINI_API_KEY = FALSE

Record(fn, a, res) ==
    /\ last' = [fn |-> fn, arg |-> a, res |-> res]
    /\ first' = IF first.fn = "none" THEN last' ELSE first

Call_get_house_type(a) ==
    /\ Record("get_house_type", a, get_house_type(a))
    /\ UNCHANGED <<BLENDER_AVAILABLE, scene, slots, web, ai>>

Call_calculate_room_config(a) ==
    /\ Record("calculate_room_config", a, calculate_room_config(a))
    /\ UNCHANGED <<BLENDER_AVAILABLE, scene, slots, web, ai>>

Call_create_floor_plan(a, house_type, bedrooms) ==
    LET new == FloorPlanObjects(BLENDER_AVAILABLE, a, house_type, bedrooms)
    IN  /\ BagCardinality(scene) + BagCardinality(new) <= MaxSceneObjects
        /\ scene' = scene (+) new
        /\ Record("create_floor_plan", a, create_floor_plan(BLENDER_AVAILABLE, a))
        /\ UNCHANGED <<BLENDER_AVAILABLE, slots, web, ai>>

Call_clear_scene ==
    /\ BLENDER_AVAILABLE
    /\ scene # EmptyBag
    /\ scene' = EmptyBag
    /\ slots' = {}
    /\ UNCHANGED <<BLENDER_AVAILABLE, web, ai, first, last>>

\* The (house_type, room_config) pairs create_floor_plan is called with: one
\* for each kind of walls and each number of interior walls.
Callers ==
    {[house_type |-> "Single Floor House", bedrooms |-> 2],
     [house_type |-> "Duplex", bedrooms |-> 3],
     [house_type |-> "Villa", bedrooms |-> 4]}

Calls(areas) ==
    \/ \E a \in areas : Call_get_house_type(a)
    \/ \E a \in areas : Call_calculate_room_config(a)
    \/ \E a \in areas, c \in Callers :
            Call_create_floor_plan(a, c.house_type, c.bedrooms)
    \/ Call_clear_scene

Next == Calls(LandAreas)

Spec == Init /\ [][Next]_vars

NextHuge == Calls(LandAreas \cup HugeAreas)

SpecHuge == Init /\ [][NextHuge]_vars

\* What the form can send.
LandTexts ==
    {<<>>, <<"x">>, <<"4", ".", "7">>,
     <<"-", "4">>, <<" ", "4">>, <<"7">>, <<"1", "1">>}
LandFields == {Absent} \cup {Field(t) : t \in LandTexts}
BudgetFields == {Absent, Field(<<"4", ",", "7">>), Field(<<"x">>)}
OrientationFields == {NoField, [present |-> TRUE, text |-> "East"]}

\* planner.plan_house(user_input) belongs to a module that is not among these
\* files: the view sees it return a result or raise.
PlanOutcomes == {"returns", "raises"}

Answer(r) ==
    /\ response' = r
    /\ served' = served + 1

\* result, the fallback path (the except block).  The calls of bpy are taken
\* not to raise here: generate_3d_house returns to the view either way.
Fallback(n, orientation, budget) ==
    LET a == IntArea(n)
        house_type == get_house_type(a).val
        room_config == calculate_room_config(a)
        model == generate_3d_house(a, house_type, orientation, 0)
        fallback_project_id == clock
        target_glb == FileName("3d_model", fallback_project_id, "glb")
        copied ==
            IF SampleGlb(n) \in samples /\ ~Exists(files, target_glb)
            THEN Write(files, target_glb, [sample |-> SampleGlb(n)])
            ELSE files
        fallback_3d_path == IF Exists(copied, target_glb) THEN target_glb ELSE NoPath
        sqft == IntRound(SqftOf(a))
        report(kind) ==
            [report |-> kind, template |-> ReportTemplate(house_type),
             project_id |-> fallback_project_id, orientation |-> orientation,
             sqft |-> sqft.val]
        project_data ==
            [project_id |-> fallback_project_id, house_type |-> house_type,
             land_cents |-> n, orientation |-> orientation,
             rooms |-> room_config.val, success |-> model.success,
             path |-> fallback_3d_path]
        written ==
            Write(Write(Write(Write(copied,
                FileName(ReportKinds[1], fallback_project_id, "txt"),
                    report(ReportKinds[1])),
                FileName(ReportKinds[2], fallback_project_id, "txt"),
                    report(ReportKinds[2])),
                FileName(ReportKinds[3], fallback_project_id, "txt"),
                    report(ReportKinds[3])),
                FileName("project_data", fallback_project_id, "json"), project_data)
    IN  IF room_config.exc # "none"
        THEN /\ Answer([NoResponse EXCEPT !.status = "exception", !.exc = room_config.exc])
             /\ UNCHANGED <<scene, materials, slots, ran, built, files, contexts, first, last>>
        ELSE /\ scene' = model.scene
             /\ materials' = model.materials
             /\ slots' = model.slots
             /\ ran' = model.ran
             /\ UNCHANGED built
             /\ files' = IF sqft.exc = "none" THEN written ELSE copied
             /\ IF sqft.exc # "none"
                THEN /\ Answer([NoResponse EXCEPT !.status = "exception", !.exc = sqft.exc])
                     /\ UNCHANGED <<contexts, first, last>>
                ELSE /\ contexts' = Append(contexts,
                            [project_id |-> fallback_project_id, land_cents |-> n,
                             orientation |-> orientation, sqft |-> sqft.val,
                             reports |-> ReportKinds])
                     /\ Answer([status |-> "render", exc |-> "none", path |-> "fallback",
                                land_cents |-> n, orientation |-> orientation,
                                budget |-> budget, house_type |-> house_type,
                                bedrooms |-> room_config.val.Bedrooms,
                                sqft |-> sqft.val,
                                project_id |-> fallback_project_id,
                                model_success |-> model.success,
                                model_path |-> fallback_3d_path,
                                reports |-> ReportKinds, content |-> NoContent])
                     /\ Record("result", a, sqft)

\* planner.plan_house(user_input): the files it leaves for project id, a
\* generated model and the project data that records where it is.
plan_house(fs, n, orientation, id) ==
    LET generated_path == FileName("generated_model", id, "glb")
    IN  Write(Write(fs, generated_path, [generated |-> n]),
              FileName("project_data", id, "json"),
              [project_id |-> id, house_type |-> "planner", land_cents |-> n,
               orientation |-> orientation, rooms |-> [planned |-> TRUE],
               success |-> TRUE, path |-> generated_path])

\* result, with the planner's answer.
Planned(n, orientation, budget) ==
    LET a == IntArea(n)
        sqft == IntRound(SqftOf(a))
    IN  /\ sqft.exc = "none"
        /\ files' = plan_house(files, n, orientation, clock)
        /\ Answer([NoResponse EXCEPT !.status = "render", !.path = "planner",
                        !.land_cents = n, !.orientation = orientation,
                        !.budget = budget, !.house_type = "planner",
                        !.sqft = sqft.val, !.project_id = clock,
                        !.model_success = TRUE,
                        !.model_path = FileName("generated_model", clock, "glb")])
        /\ Record("result", a, sqft)
        /\ UNCHANGED <<scene, materials, slots, ran, built, contexts>>

result(method, land, orient, money, outcome) ==
    /\ served < MaxRequests
    /\ planner = "None" => outcome = "raises"
    /\ request' = [NoRequest EXCEPT !.view = "result", !.method = method,
                                     !.land_cents = land]
    /\ UNCHANGED <<BLENDER_AVAILABLE, planner, samples, clock, ai>>
    /\ IF method # "POST"
       THEN /\ Answer([NoResponse EXCEPT !.status = "redirect"])
            /\ UNCHANGED <<scene, materials, slots, ran, built, files, contexts, first, last>>
       ELSE LET land_cents == ParseLandCents(land)
                orientation == IF orient.present THEN orient.text ELSE "North"
                budget == ParseBudget(money)
            IN  IF land_cents.exc # "none"
                THEN /\ Answer([NoResponse EXCEPT !.status = "exception",
                                                  !.exc = land_cents.exc])
                     /\ UNCHANGED <<scene, materials, slots, ran, built, files, contexts, first, last>>
                ELSE IF planner # "None" /\ outcome = "returns"
                THEN Planned(land_cents.val, orientation, budget)
                ELSE Fallback(land_cents.val, orientation, budget)

Tick ==
    /\ clock < MaxClock
    /\ clock' = clock + 1
    /\ UNCHANGED <<BLENDER_AVAILABLE, scene, materials, slots, ran, built, planner, samples, files,
                   request, response, served, contexts, ai, first, last>>

\* download_report(request, report_type, project_id): the response.
HttpResponse(status, content) ==
    [NoResponse EXCEPT !.status = status, !.content = content]

\* download_report looking for the report under the name of the project data.
download_report_misnamed(fs, report_type, project_id) ==
    LET filepath == FileName("project_data", project_id, "txt")
    IN  IF Exists(fs, filepath) THEN HttpResponse("200", fs[filepath])
        ELSE HttpResponse("404", [text |-> "Report not found"])

download_report(fs, report_type, project_id) ==
    LET filepath == FileName(report_type, project_id, "txt")
    IN  IF Exists(fs, filepath) THEN HttpResponse("200", fs[filepath])
        ELSE HttpResponse("404", [text |-> "Report not found"])

\* The sample GLB of download_3d_model, with the 2BHK class reaching 7 cents.
DownloadSampleGlb_drifted(land_cents) ==
    IF land_cents <= 3 THEN "1bhk.glb"
    ELSE IF 4 <= land_cents /\ land_cents <= 7 THEN "2bhk.glb"
    ELSE IF 8 <= land_cents /\ land_cents <= 10 THEN "3bhk.glb"
    ELSE "villa.glb"

\* The sample GLB download_3d_model copies for a land size.
DownloadSampleGlb(land_cents) ==
    IF land_cents <= 3 THEN "1bhk.glb"
    ELSE IF 4 <= land_cents /\ land_cents <= 6 THEN "2bhk.glb"
    ELSE IF 7 <= land_cents /\ land_cents <= 10 THEN "3bhk.glb"
    ELSE "villa.glb"

\* download_3d_model(request, project_id): the files it leaves and the response.
download_3d_model(fs, project_id) ==
    LET filepath == FileName("3d_model", project_id, "glb")
        project_json == FileName("project_data", project_id, "json")
        project_data == fs[project_json]
        generated_path == project_data.path
        exact ==
            IF generated_path # NoPath /\ Exists(fs, generated_path)
            THEN Write(fs, filepath, fs[generated_path])
            ELSE fs
        source_glb == DownloadSampleGlb(project_data.land_cents)
        restored ==
            IF Exists(fs, filepath) \/ ~Exists(fs, project_json) THEN fs
            ELSE IF source_glb \in samples
            THEN Write(exact, filepath, [sample |-> source_glb])
            ELSE exact
    IN  [files |-> restored,
         response |->
            IF Exists(restored, filepath) THEN HttpResponse("200", restored[filepath])
            ELSE HttpResponse("404", [text |-> "3D model not found"])]

Get_download_report(report_type, project_id) ==
    /\ served < MaxRequests
    /\ request' = [NoRequest EXCEPT !.view = "download_report", !.method = "GET",
                                     !.report_type = report_type,
                                     !.project_id = project_id]
    /\ Answer(download_report(files, report_type, project_id))
    /\ UNCHANGED <<BLENDER_AVAILABLE, scene, materials, slots, ran, built, planner, samples, clock,
                   files, contexts, ai, first, last>>

Get_download_3d_model(project_id) ==
    LET r == download_3d_model(files, project_id)
    IN  /\ served < MaxRequests
        /\ request' = [NoRequest EXCEPT !.view = "download_3d_model", !.method = "GET",
                                         !.project_id = project_id]
        /\ files' = r.files
        /\ Answer(r.response)
        /\ UNCHANGED <<BLENDER_AVAILABLE, scene, materials, slots, ran, built, planner, samples, clock,
                       contexts, ai, first, last>>

\* The project ids and report types a download can name: those the clock has
\* given out, one it has not, and a report type that is none of the three.
ProjectIds == 0..(MaxClock + 1)
ReportTypes == {ReportKinds[i] : i \in DOMAIN ReportKinds} \cup {"floor_plan"}

InitView ==
    /\ Start
    /\ planner \in {"None", "AutomatedHousePlanner"}
    /\ samples \in {{}, SampleNames}
    /\ HousePlanningAgent = "None"
    /\ GEMINI_API_KEY = FALSE

NextView ==
    \/ \E land \in LandFields, money \in BudgetFields, outcome \in PlanOutcomes :
            result("POST", land, NoField, money, outcome)
    \/ result("GET", Absent, NoField, Absent, "raises")
    \/ Tick

SpecView == InitView /\ [][NextView]_vars

\* The result view followed by the download views, for three sizes of land.
DownloadLandFields == {Absent, Field(<<"7">>), Field(<<"1", "1">>)}

NextDownload ==
    \/ \E land \in DownloadLandFields, orient \in OrientationFields,
          outcome \in PlanOutcomes :
            result("POST", land, orient, Absent, outcome)
    \/ \E report_type \in ReportTypes, id \in ProjectIds :
            Get_download_report(report_type, id)
    \/ \E id \in ProjectIds : Get_download_3d_model(id)
    \/ Tick

SpecDownload == InitView /\ [][NextDownload]_vars

\* ------------------------------------------------------- the chat assistant
\* What a visitor can ask.
Questions ==
    {"", "What will it COST?", "price of a north facing plot", "Estimate the rooms",
     "Which facing is best", "bedroom size on a budget", "my Budget", "hello",
     "orientation, and budget", "estimation"}

QuestionValues ==
    {PyStr(q) : q \in Questions} \cup {PyNone, PyInt("0"), PyInt("5")}

\* What one generate_content call can do.
CallOutcomes ==
    {Reply("Design: open plan. Cost: moderate."), Reply("  "), NoText,
     Fails("quota exceeded"), Fails("timed out")}

OutcomeSeqs == {<<x, y>> : x \in CallOutcomes, y \in CallOutcomes}

\* The model names genai.GenerativeModel can accept.
AcceptedSets == {{}, {"gemini-1.5-pro"}, {"gemini-2.0-flash", "gemini-1.5-pro"}}

ChatBodies ==
    {NotJson, JsonArray, JsonObject(NoMember)}
        \cup {JsonObject(Member(v)) :
                v \in {PyStr(""), PyNone, PyInt("0"), PyInt("5"), PyStr("hello"),
                       PyStr("Estimate the rooms"), PyStr("estimation"),
                       PyStr("my Budget")}}

ChatOutcomeSeqs ==
    {<<Reply("Design: open plan. Cost: moderate."), NoText>>,
     <<Fails("quota exceeded"), Reply("  ")>>,
     <<Fails("quota exceeded"), Fails("timed out")>>}

\* One call or request is observed in a behaviour: the agent and the view keep
\* nothing from one call to the next.
Unobserved == last.fn = "none"

Observe(fn, a, res) ==
    /\ last' = [fn |-> fn, arg |-> a, res |-> res]
    /\ UNCHANGED first

Call_fallback_answer(question) ==
    /\ Unobserved
    /\ Observe("_fallback_answer", [question |-> PyStr(question)],
               Return(_fallback_answer(question)))
    /\ UNCHANGED <<BLENDER_AVAILABLE, scene, slots, web, ai>>

Call_ask_ai(question, model, outcomes) ==
    LET r == ask_ai(question, model, outcomes)
    IN  /\ Unobserved
        /\ generated' = r.calls
        /\ Observe("ask_ai", [question |-> question, model |-> model,
                              outcomes |-> outcomes], Return(r.answer))
        /\ UNCHANGED <<BLENDER_AVAILABLE, scene, slots, web, HousePlanningAgent,
                       GEMINI_API_KEY, constructed, advised, reply>>

\* A request to the chat endpoint; require_http_methods(["POST"]) answers
\* any other method with 405 before the view runs.
Request_chat_with_ai(method, body, raises, configures, accepted, outcomes) ==
    LET r == IF method # "POST"
             THEN ChatOutcome(JsonResponse(405, "", ""), 0, 0, FALSE)
             ELSE chat_with_ai(HousePlanningAgent, GEMINI_API_KEY, body, raises,
                               configures, accepted, outcomes)
    IN  /\ Unobserved
        /\ reply' = r.reply
        /\ constructed' = r.constructed
        /\ generated' = r.generated
        /\ advised' = r.advised
        /\ Observe("chat_with_ai",
                   [method |-> method, body |-> body, raises |-> raises,
                    model |-> AgentModel(GEMINI_API_KEY, configures, accepted),
                    outcomes |-> outcomes],
                   Return(r.reply.response))
        /\ UNCHANGED <<BLENDER_AVAILABLE, scene, slots, web, HousePlanningAgent,
                       GEMINI_API_KEY>>

InitChat ==
    /\ Start
    /\ planner = "None"
    /\ samples = {}
    /\ HousePlanningAgent \in {"None", "HousePlanningAgent"}
    /\ GEMINI_API_KEY \in BOOLEAN

NextChat ==
    \/ \E q \in Questions : Call_fallback_answer(q)
    \/ \E q \in QuestionValues, accepted \in AcceptedSets, outcomes \in OutcomeSeqs :
            Call_ask_ai(q, _init_model(accepted), outcomes)
    \/ \E method \in {"POST", "GET"}, body \in ChatBodies, raises \in BOOLEAN,
          configures \in BOOLEAN, accepted \in AcceptedSets,
          outcomes \in ChatOutcomeSeqs :
            Request_chat_with_ai(method, body, raises, configures, accepted, outcomes)

SpecChat == InitChat /\ [][NextChat]_vars

\* ---------------------------------------------------------- the 3D generator
\* generate_3d_house called on its own, on a scene that create_floor_plan may
\* have filled before.
ModelAreas == {IntArea(MaxCents), HugeArea(1, 1024)}

Call_generate_3d_house(a, house_type, orientation, raising) ==
    LET model == generate_3d_house(a, house_type, orientation, raising)
    IN  /\ BagCardinality(model.materials) <= MaxMaterials
        /\ scene' = model.scene
        /\ materials' = model.materials
        /\ slots' = model.slots
        /\ ran' = model.ran
        /\ last' = [fn |-> "generate_3d_house",
                    arg |-> [land_cents |-> a, house_type |-> house_type,
                             orientation |-> orientation, raising |-> raising],
                    res |-> IF model.exc = "none"
                            THEN Return([success |-> model.success,
                                         message |-> model.message])
                            ELSE Raise(model.exc)]
        /\ UNCHANGED <<BLENDER_AVAILABLE, built, planner, samples, clock, files,
                       request, response, served, contexts, ai, first>>

NextModel ==
    \/ \E a \in ModelAreas, c \in Callers :
            Call_create_floor_plan(a, c.house_type, c.bedrooms)
    \/ Call_clear_scene
    \/ \E a \in ModelAreas, house_type \in {"Duplex", "3BHK"},
          orientation \in {"North", "East"}, raising \in 0..Len(Steps) :
            Call_generate_3d_house(a, house_type, orientation, raising)

SpecModel == Init /\ [][NextModel]_vars

\* ------------------------------------------------------ the house generator
\* blender_house_generator.py run with --house_type and --furniture: the loop
\* over the rooms one create_realistic_room at a time, then the rest of the
\* function (doors, windows, roof, furniture, lights) and its return.
Call_create_realistic_room ==
    /\ built.house_type \in Implemented
    /\ Len(built.rooms) < RoomCount(built.house_type)
    /\ built' = [built EXCEPT
            !.rooms = Append(@, PlacedRoom(built.house_type, Len(built.rooms) + 1))]
    /\ UNCHANGED <<BLENDER_AVAILABLE, scene, slots, materials, ran, planner, samples,
                   clock, files, request, response, served, contexts, ai, first, last>>

Finish_house ==
    /\ built.total < 0
    /\ Len(built.rooms) = RoomCount(built.house_type)
    /\ built' = [built EXCEPT
            !.total = IF built.house_type \in Implemented
                      THEN TotalObjects(built.house_type, built.furniture)
                      ELSE 0]
    /\ UNCHANGED <<BLENDER_AVAILABLE, scene, slots, materials, ran, planner, samples,
                   clock, files, request, response, served, contexts, ai, first, last>>

\* The script runs inside Blender.
InitGenerator ==
    /\ BLENDER_AVAILABLE = TRUE
    /\ scene = EmptyBag
    /\ materials = EmptyBag
    /\ slots = {}
    /\ ran = <<>>
    /\ built \in {[NoHouse EXCEPT !.house_type = h, !.furniture = f] :
                    h \in Implemented \cup {"Villa"},
                    f \in SUBSET {"beds", "sofa", "dining_table", "kitchen_counter"}}
    /\ planner = "None"
    /\ samples = {}
    /\ clock = 0
    /\ files = <<>>
    /\ request = NoRequest
    /\ response = NoResponse
    /\ served = 0
    /\ contexts = <<>>
    /\ HousePlanningAgent = "None"
    /\ GEMINI_API_KEY = FALSE
    /\ constructed = 0
    /\ generated = 0
    /\ advised = FALSE
    /\ reply = NoReply
    /\ first = NoCall
    /\ last = NoCall

NextGenerator ==
    \/ Call_create_realistic_room
    \/ Finish_house

SpecGenerator == InitGenerator /\ [][NextGenerator]_vars

\* The two advisers asked on their own: the view's adviser is kept as the first
\* call and the agent's as the latest one, each observed once.
Call_basic_advice(question) ==
    /\ first.fn = "none"
    /\ first' = [fn |-> "_basic_advice", arg |-> [question |-> PyStr(question)],
                 res |-> _basic_advice(PyStr(question))]
    /\ UNCHANGED <<BLENDER_AVAILABLE, scene, slots, web, ai, last>>

NextAdvice ==
    \/ \E q \in Questions : Call_basic_advice(q)
    \/ \E q \in Questions : Call_fallback_answer(q)

SpecAdvice == InitChat /\ [][NextAdvice]_vars

\* ------------------------------------------------------------------ claims
Called(c, fn) == c.fn = fn
Returned(c) == c.res.exc = "none"

IsSmallRecord(v) ==
    /\ v.Bedrooms = 2 /\ v.Bathrooms = 1 /\ v.Kitchen = 1 /\ v.Hall = 1
    /\ v.Parking = "1 compact" /\ v.Balcony = "Small balcony"

IsMediumRecord(v) ==
    /\ v.Bedrooms = 3 /\ v.Bathrooms = 2 /\ v.Kitchen = 1 /\ v.Hall = 1
    /\ v.Parking = "1 car" /\ v.Balcony = "Medium balcony"

IsLargeRecord(v) ==
    /\ v.Bedrooms = 4 /\ v.Bathrooms = 3 /\ v.Kitchen = 2 /\ v.Hall = 2

\* A * 435.6 <= k square feet, in exact arithmetic on tenths of a square foot.
ExactSqftLe(a, k) ==
    IF a.e > 0 THEN a.n < 0
    ELSE IF a.k = "int" THEN a.n * SqftTenthsPerCent <= 10 * k
    ELSE 4 * a.n <= 10 * k

\* The float land area whose square-footage is exactly k.
AtSqft(k) == FloatArea((10 * k) \div 4)

\* C1: every integer land area A with A * 435.6 <= 1000, which is A <= 2, gets
\* the smallest tier: get_house_type(A) is "Single Floor House" and
\* calculate_room_config(A) is the smallest record.
C1_SmallestTier ==
    IsInteger(last.arg) =>
        /\ ExactSqftLe(last.arg, 1000) <=> last.arg.n <= 2
        /\ ExactSqftLe(last.arg, 1000) =>
            /\ Called(last, "get_house_type")
                    => last.res = Return("Single Floor House")
            /\ Called(last, "calculate_room_config")
                    => Returned(last) /\ IsSmallRecord(last.res.val)

C1_Witness ==
    /\ Called(first, "get_house_type") /\ first.arg = IntArea(2)
    /\ first.res = Return("Single Floor House")
    /\ Called(last, "calculate_room_config") /\ last.arg = IntArea(2)
    /\ IsSmallRecord(last.res.val)

\* C2: calculate_room_config(A) is the medium record exactly for the land
\* areas of the medium band, 1000 < A * 435.6 <= 2000; among the integers
\* these are 3 and 4.
C2_MediumBand ==
    Called(last, "calculate_room_config") =>
        LET medium == Returned(last) /\ IsMediumRecord(last.res.val)
            inBand == ~ExactSqftLe(last.arg, 1000) /\ ExactSqftLe(last.arg, 2000)
        IN  /\ medium <=> inBand
            /\ IsInteger(last.arg) => (medium <=> last.arg.n \in {3, 4})

C2_Witness ==
    /\ Called(first, "calculate_room_config") /\ first.arg = IntArea(3)
    /\ IsMediumRecord(first.res.val)
    /\ Called(last, "calculate_room_config") /\ last.arg = IntArea(4)
    /\ IsMediumRecord(last.res.val)

\* C3: room counts are monotonic non-decreasing in the land area: of two calls
\* of calculate_room_config, the one with the smaller or equal land area has
\* no more Bedrooms, Bathrooms, Kitchen or Hall than the other.
CountsLe(v, w) ==
    /\ v.Bedrooms <= w.Bedrooms /\ v.Bathrooms <= w.Bathrooms
    /\ v.Kitchen <= w.Kitchen /\ v.Hall <= w.Hall

C3_MonotonicRoomCounts ==
    (Called(first, "calculate_room_config") /\ Called(last, "calculate_room_config")) =>
        /\ Returned(first) /\ Returned(last)
        /\ ~LtArea(last.arg, first.arg) => CountsLe(first.res.val, last.res.val)
        /\ ~LtArea(first.arg, last.arg) => CountsLe(last.res.val, first.res.val)

C3_Witness ==
    /\ Called(first, "calculate_room_config") /\ first.arg = IntArea(2)
    /\ Called(last, "calculate_room_config") /\ last.arg = IntArea(5)
    /\ first.res.val.Bedrooms < last.res.val.Bedrooms
    /\ first.res.val.Kitchen < last.res.val.Kitchen

\* A land area whose product with 435.6 can be formed: a float, or an integer
\* below 2^1024, the first power of two with no double.
ConvertsToDouble(a) == ~(a.k = "int" /\ a.e >= 1024)

C7_ThresholdIsLowerTier ==
    /\ Called(last, "get_house_type") =>
        /\ last.arg = IntArea(5) => last.res = Return("Single Floor House")
        /\ last.arg = IntArea(6) => last.res = Return("Duplex")
        /\ last.arg = IntArea(10) => last.res = Return("Duplex")
        /\ last.arg = IntArea(11) => last.res = Return("Villa")
    /\ Called(last, "calculate_room_config") =>
        /\ last.arg = AtSqft(1000) => Returned(last) /\ IsSmallRecord(last.res.val)
        /\ last.arg = AtSqft(2000) => Returned(last) /\ IsMediumRecord(last.res.val)
    /\ Called(last, "create_floor_plan") =>
        /\ last.arg = AtSqft(1000) => last.res = Return(<<30, 35>>)
        /\ last.arg = AtSqft(2000) => last.res = Return(<<40, 50>>)

C7_Witness ==
    /\ Called(first, "get_house_type") /\ first.arg = IntArea(10)
    /\ first.res = Return("Duplex")
    /\ Called(last, "create_floor_plan") /\ last.arg = AtSqft(2000)
    /\ last.res = Return(<<40, 50>>)

\* C8: create_floor_plan returns one of (30,35), (40,50), (50,70), chosen by
\* the tier calculate_room_config uses for the same land area: (30,35) with 2
\* bedrooms, (40,50) with 3 and (50,70) with 4, with the Blender API and
\* without it.
DimensionsOfBedrooms(b) ==
    IF b = 2 THEN <<30, 35>> ELSE IF b = 3 THEN <<40, 50>> ELSE <<50, 70>>

Agree(config, plan) ==
    (Called(config, "calculate_room_config") /\ Called(plan, "create_floor_plan")
        /\ config.arg = plan.arg) =>
            /\ Returned(config) /\ Returned(plan)
            /\ config.res.val.Bedrooms \in {2, 3, 4}
            /\ plan.res.val = DimensionsOfBedrooms(config.res.val.Bedrooms)

C8_DimensionsFollowRoomTier ==
    /\ Called(last, "create_floor_plan") =>
        /\ Returned(last)
        /\ last.res.val \in {<<30, 35>>, <<40, 50>>, <<50, 70>>}
    /\ Agree(first, last)
    /\ Agree(last, first)

C8_Witness ==
    /\ BLENDER_AVAILABLE
    /\ Called(first, "calculate_room_config") /\ first.arg = IntArea(4)
    /\ first.res.val.Bedrooms = 3
    /\ Called(last, "create_floor_plan") /\ last.arg = IntArea(4)
    /\ last.res = Return(<<40, 50>>)
    /\ BagCardinality(scene) > 0

LandCentsUnusable(r) ==
    r.view = "result" /\ r.method = "POST" /\ (~r.land_cents.present \/ int(r.land_cents.text).exc # "none")

C6_BadLandCentsGetsBaseline ==
    LandCentsUnusable(request) =>
        /\ response.status = "render"
        /\ response.land_cents = 1
        /\ response.path = "fallback" =>
            response.house_type = "Single Floor House" /\ response.bedrooms = 2

\* C9: the square-footage is monotonic in the land area, and the whole number
\* the result view reports, int(round(A * 435.6)), is the nearest integer to
\* A * 435.6 and does not decrease as A grows (in tenths of a square foot,
\* A * 435.6 is A * 4356).
ExactTenths(a) == a.n * SqftTenthsPerCent

C9_SqftMonotonicAndNearest ==
    /\ Called(last, "result") =>
        /\ Returned(last)
        /\ 10 * last.res.val - ExactTenths(last.arg) \in (0 - 5)..5
    /\ response.status = "render" =>
        /\ Called(last, "result") /\ last.arg = IntArea(response.land_cents)
        /\ response.sqft = last.res.val
    /\ (Called(first, "result") /\ Called(last, "result")
            /\ first.arg.n < last.arg.n) =>
        /\ SqftOf(first.arg).t < SqftOf(last.arg).t
        /\ first.res.val <= last.res.val
    /\ (Called(first, "result") /\ Called(last, "result")
            /\ last.arg.n < first.arg.n) =>
        /\ SqftOf(last.arg).t < SqftOf(first.arg).t
        /\ last.res.val <= first.res.val

C9_Witness ==
    /\ Called(first, "result") /\ first.arg = IntArea(0 - 4)
    /\ first.res = Return(0 - 1742)
    /\ Called(last, "result") /\ last.arg = IntArea(11)
    /\ last.res = Return(4792)
    /\ response.sqft = 4792

\* C11: _fallback_answer is total and follows a fixed precedence: for every
\* question string it returns exactly one of the five fixed answers, the cost
\* answer if the lower-cased question contains 'cost', 'price' or 'estimat',
\* else the orientation answer if it contains 'orientation' or 'facing', else
\* the room-size answer if it contains 'size' or 'room', else the budget answer
\* if it contains 'budget', else the generic answer.
Mentions(question, keywords) ==
    \E k \in keywords : Contains(Lower(question), k)

C11_FallbackPrecedence ==
    Called(last, "_fallback_answer") =>
        LET q == last.arg.question.val
            cost == Mentions(q, {"cost", "price", "estimat"})
            orientation == Mentions(q, {"orientation", "facing"})
            size == Mentions(q, {"size", "room"})
            budget == Mentions(q, {"budget"})
        IN  /\ Returned(last)
            /\ last.res.val \in FallbackAnswers
            /\ last.res.val = CostAnswer <=> cost
            /\ last.res.val = OrientationAnswer <=> (~cost /\ orientation)
            /\ last.res.val = RoomSizeAnswer <=> (~cost /\ ~orientation /\ size)
            /\ last.res.val = BudgetAnswer
                    <=> (~cost /\ ~orientation /\ ~size /\ budget)
            /\ last.res.val = GenericAnswer
                    <=> (~cost /\ ~orientation /\ ~size /\ ~budget)

C11_Witness ==
    /\ Called(last, "_fallback_answer")
    /\ last.arg.question = PyStr("Estimate the rooms")
    /\ last.res = Return(CostAnswer)

\* C12: chat_with_ai rejects a POST whose JSON body has a missing or empty
\* 'message' with status 400 and error 'No message provided', and then no
\* HousePlanningAgent is constructed, generate_content is not called and
\* _basic_advice is not called.
MessageMissingOrEmpty(body) ==
    /\ body.json = "object"
    /\ ~body.message.present \/ ~Truthy(body.message.value)

C12_EmptyMessageRejected ==
    (Called(last, "chat_with_ai") /\ last.arg.method = "POST"
            /\ MessageMissingOrEmpty(last.arg.body)) =>
        /\ reply.status = 400
        /\ reply.error = "No message provided"
        /\ constructed = 0
        /\ generated = 0
        /\ ~advised

C12_Witness ==
    /\ Called(last, "chat_with_ai") /\ last.arg.method = "POST"
    /\ last.arg.body = JsonObject(Member(PyStr("")))
    /\ HousePlanningAgent # "None" /\ last.arg.model # "None"
    /\ reply = JsonResponse(400, "No message provided", "")
    /\ constructed = 0

\* C13: a POST to chat_with_ai whose body is a JSON object with a non-empty
\* string 'message' is answered with status 200 and a non-empty 'response',
\* whatever the state of the AI: the basic advice when the agent class was
\* not imported, a text that embeds the basic advice when constructing the
\* agent raises or the agent has no model, and never a 500.
HasMessage(body) ==
    /\ body.json = "object"
    /\ body.message.present
    /\ body.message.value.type = "str"
    /\ body.message.value.val # ""

EndsWith(s, t) ==
    Len(t) <= Len(s) /\ SubSeq(s, Len(s) - Len(t) + 1, Len(s)) = t

C13_ChatAlwaysAnswers ==
    (Called(last, "chat_with_ai") /\ last.arg.method = "POST"
            /\ HasMessage(last.arg.body)) =>
        /\ reply.status = 200
        /\ reply.response # ""
        /\ HousePlanningAgent = "None" =>
                reply.response \in BasicAnswers /\ advised
        /\ (HousePlanningAgent # "None" /\ (last.arg.raises \/ last.arg.model = "None")) =>
                /\ advised
                /\ \E a \in BasicAnswers : EndsWith(reply.response, a)
                /\ SubSeq(reply.response, 1, Len("AI unavailable: ")) = "AI unavailable: "

C13_Witness ==
    /\ Called(last, "chat_with_ai") /\ last.arg.method = "POST"
    /\ last.arg.body = JsonObject(Member(PyStr("Estimate the rooms")))
    /\ HousePlanningAgent # "None" /\ ~last.arg.raises /\ last.arg.model = "None"
    /\ reply.status = 200
    /\ reply.response =
        "AI unavailable: AI model not initialized. Using basic advice: " \o BasicRoomSize

\* C20: ask_ai never raises and is bounded: generate_content is called at most
\* twice; it is not called when the question is empty or no string or when
\* there is no model; the first successful non-empty text is returned with no
\* further attempt; a successful reply with an empty text gives the fallback
\* answer; after two failed attempts the answer is
\* 'AI unavailable: <last error>. <fallback answer>'.
Failed(o) == o.kind = "raises"
EmptyText(o) == o.kind = "none" \/ StripText(o.text) = ""

C20_AskAiBounded ==
    Called(last, "ask_ai") =>
        LET q == last.arg.question
            o == last.arg.outcomes
            asks == Truthy(q) /\ q.type = "str" /\ last.arg.model # "None"
            \* the attempt that answers, 0 when both fail
            k == IF ~Failed(o[1]) THEN 1 ELSE IF ~Failed(o[2]) THEN 2 ELSE 0
        IN  /\ Returned(last)
            /\ last.res.val # ""
            /\ generated <= 2
            /\ ~asks => generated = 0
            /\ (asks /\ k > 0) => generated = k
            /\ (asks /\ k > 0 /\ ~EmptyText(o[k])) => last.res.val = StripText(o[k].text)
            /\ (asks /\ k > 0 /\ EmptyText(o[k])) => last.res.val \in FallbackAnswers
            /\ (asks /\ k = 0) =>
                /\ generated = 2
                /\ \E a \in FallbackAnswers :
                        last.res.val = "AI unavailable: " \o o[2].text \o ". " \o a

C20_Witness ==
    /\ Called(last, "ask_ai")
    /\ last.arg.question = PyStr("my Budget") /\ last.arg.model = "gemini-1.5-pro"
    /\ last.arg.outcomes = <<Fails("quota exceeded"), Fails("timed out")>>
    /\ last.res = Return("AI unavailable: timed out. " \o BudgetAnswer)
    /\ generated = 2

\* C14: the house type and the room configuration chosen for the same integer
\* land area name the same tier: get_house_type(A) is "Single Floor House"
\* exactly when calculate_room_config(A) is the small record, "Duplex" exactly
\* when it is the medium record and "Villa" exactly when it is the large one.
C14_HouseTypeAndRoomsAgree ==
    (Called(first, "get_house_type") /\ Called(last, "calculate_room_config")
            /\ IsInteger(last.arg) /\ first.arg = last.arg) =>
        /\ first.res.val = "Single Floor House" <=> IsSmallRecord(last.res.val)
        /\ first.res.val = "Duplex" <=> IsMediumRecord(last.res.val)
        /\ first.res.val = "Villa" <=> IsLargeRecord(last.res.val)

\* The files of a project id.
ReportFile(report_type, id) == FileName(report_type, id, "txt")
ProjectJson(id) == FileName("project_data", id, "json")
ModelGlb(id) == FileName("3d_model", id, "glb")

\* The land-size classes as the claims state them.
ExpectedGlb(n) ==
    IF n <= 3 THEN "1bhk.glb"
    ELSE IF n <= 6 THEN "2bhk.glb"
    ELSE IF n <= 10 THEN "3bhk.glb"
    ELSE "villa.glb"

ExpectedTemplate(n) ==
    IF n <= 3 THEN "1BHK"
    ELSE IF n <= 6 THEN "2BHK"
    ELSE IF n <= 10 THEN "3BHK"
    ELSE "Villa"

\* C15: in the fallback path of the result view the three reports use the
\* template of the land-size class of the request: 1BHK for land_cents <= 3,
\* 2BHK for 4..6, 3BHK for 7..10 and Villa otherwise, the class of the sample
\* GLB selected for the request.
C15_ReportsFollowLandSize ==
    (response.status = "render" /\ response.path = "fallback") =>
        \A i \in DOMAIN response.reports :
            LET f == ReportFile(response.reports[i], response.project_id)
            IN  /\ Exists(files, f)
                /\ files[f].template = ExpectedTemplate(response.land_cents)

C17_PrefersGeneratedModel ==
    [][(/\ request'.view = "download_3d_model" /\ served' = served + 1
        /\ ~Exists(files, ModelGlb(request'.project_id))
        /\ Exists(files, ProjectJson(request'.project_id))
        /\ files[ProjectJson(request'.project_id)].path # NoPath
        /\ Exists(files, files[ProjectJson(request'.project_id)].path)) =>
            /\ response'.status = "200"
            /\ response'.content = files[files[ProjectJson(request'.project_id)].path]
      ]_vars

\* C18: every report the result view advertises can be downloaded: once the
\* fallback path has rendered a context, each report of context['reports'] is
\* a file of the project, and download_report(report_type, project_id) for it
\* answers 200 with the text of that file, never 404.
Advertised(report_type, id) ==
    \E i \in DOMAIN contexts :
        /\ contexts[i].project_id = id
        /\ \E k \in DOMAIN contexts[i].reports : contexts[i].reports[k] = report_type

MadeFrom(c) ==
    /\ Exists(files, ProjectJson(c.project_id))
    /\ files[ProjectJson(c.project_id)].land_cents = c.land_cents
    /\ \A k \in DOMAIN c.reports :
        /\ Exists(files, ReportFile(c.reports[k], c.project_id))
        /\ files[ReportFile(c.reports[k], c.project_id)].sqft = c.sqft
    /\ Exists(files, ModelGlb(c.project_id)) =>
            files[ModelGlb(c.project_id)] = [sample |-> SampleGlb(c.land_cents)]

C19_RequestsIsolated ==
    \A i, j \in DOMAIN contexts :
        (i < j /\ contexts[i].land_cents # contexts[j].land_cents) =>
            /\ contexts[i].project_id # contexts[j].project_id
            /\ MadeFrom(contexts[i])
            /\ MadeFrom(contexts[j])


\* The category an answer of either adviser belongs to.
Topic(answer) ==
    IF answer \in {CostAnswer, BasicCost} THEN "cost"
    ELSE IF answer \in {OrientationAnswer, BasicOrientation} THEN "orientation"
    ELSE IF answer \in {RoomSizeAnswer, BasicRoomSize} THEN "room size"
    ELSE IF answer \in {BudgetAnswer, BasicBudget} THEN "budget"
    ELSE IF answer \in {GenericAnswer, BasicGeneric} THEN "generic"
    ELSE "none"

\* C21: for every question string, views._basic_advice and
\* HousePlanningAgent._fallback_answer choose the same one of the five
\* categories (cost, orientation, room size, budget, generic).
C21_AdvisersAgree ==
    (/\ Called(first, "_basic_advice")
     /\ Called(last, "_fallback_answer")
     /\ first.arg.question = last.arg.question)
        => /\ Returned(first)
           /\ Topic(first.res.val) # "none"
           /\ Topic(first.res.val) = Topic(last.res.val)


\* A step of the latest generate_3d_house call raised.
StepRaised ==
    \/ last.arg.raising > 0
    \/ SqftOf(last.arg.land_cents).exc # "none"

IsPrefix(s, t) == Len(s) <= Len(t) /\ s = SubSeq(t, 1, Len(s))

\* C22: generate_3d_house never raises and always returns a (success, message)
\* pair: without the Blender API it returns (True, simulated message) and
\* enters no step, leaving the scene alone; with it, it returns True only
\* after clear_scene, the floor plan, the roof, the windows and doors, the
\* materials and the lighting have all run in that order, and it returns
\* (False, 'Error generating 3D house: ...') if any of those steps raises.
C22_GenerateNeverRaises ==
    Called(last, "generate_3d_house") =>
        /\ Returned(last)
        /\ last.res.val.success \in BOOLEAN
        /\ Len(last.res.val.message) > 0
        /\ IsPrefix(ran, Steps)
        /\ ~BLENDER_AVAILABLE =>
                /\ last.res.val = [success |-> TRUE, message |-> SimulatedMessage]
                /\ ran = <<>>
                /\ scene = EmptyBag /\ materials = EmptyBag
        /\ (BLENDER_AVAILABLE /\ last.res.val.success) =>
                ran = Steps /\ ~StepRaised
        /\ (BLENDER_AVAILABLE /\ StepRaised) =>
                /\ ~last.res.val.success
                /\ StartsWith(last.res.val.message, ErrorMessage(""))
                /\ Len(ran) < Len(Steps) \/ last.arg.raising = Len(Steps)

\* A step raised in the middle and the call still returned.
C22_Witness ==
    /\ Called(last, "generate_3d_house")
    /\ BLENDER_AVAILABLE
    /\ last.arg.raising = 4
    /\ ran = SubSeq(Steps, 1, 4)
    /\ "Roof" \in BagToSet(scene)
    /\ last.res = Return([success |-> FALSE,
            message |-> "Error generating 3D house: bpy failed in create_windows_and_doors"])


\* The kinds of object that have a material of their own.
MaterialKinds == {"Wall", "Roof", "Ground", "Door", "Window"}

\* C23: after generate_3d_house succeeds with Blender available, every
\* created wall, roof, ground, door and window object has the material of its
\* kind (Wall, Roof, Ground, Door, Window) assigned to it.
C23_MaterialsAssigned ==
    (/\ Called(last, "generate_3d_house")
     /\ BLENDER_AVAILABLE
     /\ Returned(last)
     /\ last.res.val.success)
        => \A object \in BagToSet(scene), kind \in MaterialKinds :
                Contains(object, kind) =>
                    /\ kind \in BagToSet(materials)
                    /\ <<object, kind>> \in slots


\* Two rectangles with disjoint interiors: they share at most an edge.
DisjointInteriors(r, s) ==
    \/ r.x + r.width <= s.x
    \/ s.x + s.width <= r.x
    \/ r.y + r.height <= s.y
    \/ s.y + s.height <= r.y

\* C24: in the 3BHK layout and in the Duplex layout (the ground-floor rooms
\* together with the first-floor rooms after their y offset of 13), any two
\* distinct rooms have disjoint interiors.
C24_RoomsDisjoint ==
    \A i, j \in 1..Len(built.rooms) :
        i # j => DisjointInteriors(built.rooms[i], built.rooms[j])

\* The Duplex is finished: both floors are laid, the first one moved by 13.
C24_Witness ==
    /\ built.house_type = "Duplex"
    /\ built.total > 0
    /\ Len(built.rooms) = Len(GroundFloorRooms) + Len(FirstFloorRooms)
    /\ built.rooms[Len(GroundFloorRooms)].name = "Staircase"
    /\ built.rooms[Len(GroundFloorRooms) + 1] =
            RoomRect("Master Bedroom", 0, FirstFloorOffset, 6, 5)

====
